---- MODULE Spec2Model ----
(***************************************************************************)
(* A model of the canvas game engine of src/engine.js: the Input tracker,  *)
(* the shapes, the collision predicates and the Engine frame loop.         *)
(*                                                                         *)
(* The frame callback (Engine.loop) is modelled step by step (one step per *)
(* loop iteration of update, of the collision pass and of draw), with the  *)
(* loop indices as variables.  DOM event handlers and outside calls of     *)
(* add/remove run only while no frame callback is running: the browser     *)
(* runs every callback to completion on one queue.                         *)
(***************************************************************************)
EXTENDS Integers, Sequences, FiniteSets, TLC

(***************************************************************************)
(* Bounds of the model.                                                    *)
(***************************************************************************)
MaxObjects == 3      \* longest object list the model lets add() build
MaxTime == 1         \* largest frame timestamp handed to loop(time)
MaxOwed == 2         \* saturation of the bookkeeping counter owed
MaxCoord == 2        \* largest x of a shape handed to a predicate directly
MaxSize == 2         \* largest width, height and radius of such a shape

Ids == {1, 2, 3}     \* the objects the page has constructed
NoId == 0            \* "no object" in a local variable

Keys == {"ArrowRight"}

\* clientX/clientY of mousemove events and the top-left corners of the
\* bounding rectangle of the event target
ClientPts == {<<2, 1>>, <<4, 1>>}
RectOrigins == {<<0, 0>>, <<-2, -5>>}

(***************************************************************************)
(* Objects.  A record carries the fields of every class; "fields" is the   *)
(* set of size fields the instance really has, "kind" is its class.        *)
(* callback: the Button has a callback.  onCollision: the ad-hoc handler   *)
(* attached to the instance ("none" when the property is absent).          *)
(***************************************************************************)
GameObject(x, y) ==
    [kind |-> "GameObject", x |-> x, y |-> y, vx |-> 0, vy |-> 0,
     width |-> 0, height |-> 0, radius |-> 0, fields |-> {},
     callback |-> FALSE, onCollision |-> "none"]

Rectangle(x, y, w, h) ==
    [GameObject(x, y) EXCEPT !.kind = "Rectangle", !.width = w, !.height = h,
                             !.fields = {"width", "height"}]

Circle(x, y, r) ==
    [GameObject(x, y) EXCEPT !.kind = "Circle", !.radius = r,
                             !.fields = {"radius"}]

Sprite(x, y, iw, ih) ==
    [GameObject(x, y) EXCEPT !.kind = "Sprite", !.width = iw, !.height = ih,
                             !.fields = {"width", "height"}]

Text(x, y) ==
    [GameObject(x, y) EXCEPT !.kind = "Text"]

Button(x, y, w, h, cb) ==
    [Rectangle(x, y, w, h) EXCEPT !.kind = "Button", !.callback = cb]

\* a dispatch on the presence of a width instead of the class
InstanceOfRectangle_HasWidth(a) == "width" \in a.fields

\* a instanceof Rectangle: Button extends Rectangle
InstanceOfRectangle(a) == a.kind \in {"Rectangle", "Button"}
InstanceOfCircle(a) == a.kind = "Circle"
InstanceOfButton(a) == a.kind = "Button"

\* obj.width || 0 and obj.height || 0: an absent or zero field reads as 0
WidthOr0(o) == IF "width" \in o.fields /\ o.width # 0 THEN o.width ELSE 0
HeightOr0(o) == IF "height" \in o.fields /\ o.height # 0 THEN o.height ELSE 0

Max(p, q) == IF p >= q THEN p ELSE q
Min(p, q) == IF p <= q THEN p ELSE q

(***************************************************************************)
(* Input.                                                                  *)
(***************************************************************************)
InputMouse == [x |-> 0, y |-> 0, down |-> FALSE, clicked |-> FALSE]

keydown(ks, key) == ks \cup {key}
keyup(ks, key) == ks \ {key}

mousemove(m, client, origin) ==
    [m EXCEPT !.x = client[1] - origin[1], !.y = client[2] - origin[2]]

mousedown(m) == [m EXCEPT !.down = TRUE, !.clicked = TRUE]

\* a mouseup handler that also ends the click
mouseup_ClearsClick(m) == [m EXCEPT !.down = FALSE, !.clicked = FALSE]

mouseup(m) == [m EXCEPT !.down = FALSE]

isKeyDown(ks, key) == key \in ks
isMouseDown(m) == m.down
\* a click query that also answers true while the button is held
wasMouseClicked_WhileDown(m) == m.clicked \/ m.down

wasMouseClicked(m) == m.clicked
\* a consumeClick that resets the whole mouse record
consumeClick_Reset(m) == InputMouse

consumeClick(m) == [m EXCEPT !.clicked = FALSE]

isMouseInside(m, o) ==
    /\ m.x >= o.x
    /\ m.x <= o.x + WidthOr0(o)
    /\ m.y >= o.y
    /\ m.y <= o.y + HeightOr0(o)

(***************************************************************************)
(* Collision predicates.                                                   *)
(***************************************************************************)
\* an overlap test that counts touching edges
rectRectCollision_Closed(a, b) ==
    /\ a.x <= b.x + b.width
    /\ a.x + a.width >= b.x
    /\ a.y <= b.y + b.height
    /\ a.y + a.height >= b.y

\* an overlap test that looks at the horizontal extent of a only from one side
rectRectCollision_OneSided(a, b) ==
    /\ a.x < b.x + b.width
    /\ a.y < b.y + b.height
    /\ a.y + a.height > b.y

rectRectCollision(a, b) ==
    /\ a.x < b.x + b.width
    /\ a.x + a.width > b.x
    /\ a.y < b.y + b.height
    /\ a.y + a.height > b.y

\* the integer part of Math.sqrt(n), n a non-negative integer
FloorSqrt(n) == CHOOSE r \in 0..n : r * r <= n /\ n < (r + 1) * (r + 1)

\* a distance test that counts touching circles
SqrtBelow_OrEqual(n, s) == FloorSqrt(n) < s \/ (FloorSqrt(n) = s /\ s * s = n)

\* Math.sqrt(n) < s for integers n >= 0 and s: the root lies in
\* [FloorSqrt(n), FloorSqrt(n) + 1), so it is below s exactly when its
\* integer part is
SqrtBelow(n, s) == FloorSqrt(n) < s

circleCircleCollision(a, b) ==
    LET dx == a.x - b.x
        dy == a.y - b.y
    IN  SqrtBelow(dx * dx + dy * dy, a.radius + b.radius)

\* a nearest-point test that counts a circle touching the rectangle
rectCircleCollision_Closed(rect, circ) ==
    LET cx == Max(rect.x, Min(circ.x, rect.x + rect.width))
        cy == Max(rect.y, Min(circ.y, rect.y + rect.height))
        dx == circ.x - cx
        dy == circ.y - cy
    IN  dx * dx + dy * dy <= circ.radius * circ.radius

rectCircleCollision(rect, circ) ==
    LET cx == Max(rect.x, Min(circ.x, rect.x + rect.width))
        cy == Max(rect.y, Min(circ.y, rect.y + rect.height))
        dx == circ.x - cx
        dy == circ.y - cy
    IN  dx * dx + dy * dy < circ.radius * circ.radius

\* a dispatcher that passes a Circle-Rectangle pair on without swapping it
checkCollision_NoSwap(a, b) ==
    IF InstanceOfRectangle(a) /\ InstanceOfRectangle(b) THEN rectRectCollision(a, b)
    ELSE IF InstanceOfCircle(a) /\ InstanceOfCircle(b) THEN circleCircleCollision(a, b)
    ELSE IF InstanceOfRectangle(a) /\ InstanceOfCircle(b) THEN rectCircleCollision(a, b)
    ELSE IF InstanceOfCircle(a) /\ InstanceOfRectangle(b) THEN rectCircleCollision(a, b)
    ELSE FALSE

checkCollision(a, b) ==
    IF InstanceOfRectangle(a) /\ InstanceOfRectangle(b) THEN rectRectCollision(a, b)
    ELSE IF InstanceOfCircle(a) /\ InstanceOfCircle(b) THEN circleCircleCollision(a, b)
    ELSE IF InstanceOfRectangle(a) /\ InstanceOfCircle(b) THEN rectCircleCollision(a, b)
    ELSE IF InstanceOfCircle(a) /\ InstanceOfRectangle(b) THEN rectCircleCollision(b, a)
    ELSE FALSE

(***************************************************************************)
(* Engine.add and Engine.remove on the object list.                        *)
(***************************************************************************)
\* Array.prototype.indexOf: the first position (from 1) holding o, 0 for -1
indexOf(list, o) ==
    IF \E p \in 1..Len(list) : list[p] = o
    THEN CHOOSE p \in 1..Len(list) :
            list[p] = o /\ \A q \in 1..(p - 1) : list[q] # o
    ELSE 0

\* Array.prototype.splice(idx, 1)
splice1(list, idx) ==
    [p \in 1..(Len(list) - 1) |-> IF p < idx THEN list[p] ELSE list[p + 1]]

\* an add that puts the object in front
add_Front(list, o) == <<o>> \o list

add(list, o) == Append(list, o)

\* a remove that takes out every entry equal to o
remove_All(list, o) == SelectSeq(list, LAMBDA e : e # o)

remove(list, o) ==
    LET idx == indexOf(list, o)
    IN  IF idx # 0 THEN splice1(list, idx) ELSE list

(***************************************************************************)
(* The ad-hoc onCollision handlers of the scenes.  A handler may change    *)
(* the fields of its own object and may call engine.remove; "w" is the     *)
(* pair of the object fields and the engine's object list.                 *)
(***************************************************************************)
AwayX == 7           \* where the "move" handler puts its object

onCollision(w, self, other) ==
    LET h == w.obj[self].onCollision
    IN  IF h = "move" THEN [w EXCEPT !.obj[self].x = AwayX]
        ELSE IF h = "removeOther" THEN [w EXCEPT !.objects = remove(w.objects, other)]
        ELSE w

SceneUI ==
    (1 :> Button(0, 0, 2, 2, TRUE)) @@
    (2 :> Button(1, 0, 2, 2, TRUE)) @@
    (3 :> Button(4, 0, 1, 1, FALSE))

ScenePhys ==
    (1 :> [Rectangle(0, 0, 2, 2) EXCEPT !.onCollision = "move"]) @@
    (2 :> [Rectangle(1, 1, 2, 2) EXCEPT !.onCollision = "removeOther"]) @@
    (3 :> [Circle(2, 2, 1) EXCEPT !.onCollision = "noop"])

(***************************************************************************)
(* State.                                                                  *)
(***************************************************************************)
VARIABLES
    obj,         \* the fields of every constructed object
    objects,     \* engine.objects
    keys,        \* input.keys
    mouse,       \* input.mouse
    lastTime,    \* engine.lastTime
    override,    \* TRUE: engine.update was replaced by the demo's function
    pending,     \* frame callbacks requested and not yet started
    pc,          \* position of the frame callback ("idle": none is running)
    dt,          \* loop's dt (in ms), 0 outside a frame
    k,           \* index of the for-of loops of update and draw (from 1)
    i, j,        \* indices of the collision loops (from 1)
    a, b,        \* the collision loop's const a, const b (NoId outside)
    hit,         \* demo update: the result of its one checkCollision(a, b)
    \* bookkeeping of the frame in progress, emptied when the frame ends
    updated,     \* objects whose update ran, in call order
    fired,       \* Buttons whose callback ran, in call order
    consumes,    \* number of calls of input.consumeClick()
    pairs,       \* index pairs <<i, j>> the collision pass has taken
    n0,          \* length of the object list when the collision pass began
    calls,       \* onCollision calls <<callee, other>>, in call order
    first,       \* result of the first checkCollision(a, b) of the pair
    c0,          \* length of calls when the current pair began
    cleared,     \* the canvas was cleared in this frame
    drawn,       \* objects whose draw ran, in call order
    \* bookkeeping across frames
    owed,        \* presses made inside a listed Button with a callback
                 \* since the list last changed, not yet answered by a
                 \* callback (saturates at MaxOwed)
    snap,        \* the list before the last add(o), while remove(o) may follow
    stale,       \* the life of a press made outside every listed Button, none added since
    \* a direct call of a predicate: its arguments and what it returned
    argA, argB, result

inputVars == <<keys, mouse>>
loopVars == <<pc, dt, k, i, j, a, b, hit>>
frameLog == <<updated, fired, consumes, pairs, n0, calls, first, c0, cleared, drawn>>
vars == <<obj, objects, keys, mouse, lastTime, override, pending, pc, dt, k,
          i, j, a, b, hit, updated, fired, consumes, pairs, n0, calls, first,
          c0, cleared, drawn, owed, snap, stale, argA, argB, result>>
callVars == <<argA, argB, result>>

NoSnap == [stage |-> "none", o |-> NoId, before |-> <<>>]

EmptyLog ==
    /\ updated = <<>> /\ fired = <<>> /\ consumes = 0 /\ pairs = <<>> /\ n0 = 0
    /\ calls = <<>> /\ first = FALSE /\ c0 = 0 /\ cleared = FALSE
    /\ drawn = <<>>

\* Engine.constructor and Input.constructor have run; the page has built its
\* objects and may or may not have replaced engine.update
\* a requestAnimationFrame that registers nothing
requestAnimationFrame_Dropped(n) == n

\* the number of frame callbacks pending after one more is registered
requestAnimationFrame(n) == n + 1

Constructed ==
    /\ objects = <<>>
    /\ keys = {}
    /\ mouse = InputMouse
    /\ lastTime = 0
    /\ pending = requestAnimationFrame(0)
    /\ pc = "idle" /\ dt = 0 /\ k = 0 /\ i = 0 /\ j = 0
    /\ a = NoId /\ b = NoId /\ hit = FALSE
    /\ EmptyLog
    /\ owed = 0 /\ snap = NoSnap /\ stale = "no"

NoResult == [fn |-> "none", val |-> FALSE]
NoCall == argA = GameObject(0, 0) /\ argB = GameObject(0, 0) /\ result = NoResult

\* a page of Buttons, with the Engine.update of the class
InitUI == obj = SceneUI /\ override = FALSE /\ Constructed /\ NoCall

\* a page of shapes with onCollision handlers, with either update
InitPhys == obj = ScenePhys /\ override \in BOOLEAN /\ Constructed /\ NoCall

Buttons == {o \in Ids : InstanceOfButton(obj[o])}
InList(o) == \E p \in 1..Len(objects) : objects[p] = o

(***************************************************************************)
(* DOM event handlers (Input.constructor).                                 *)
(***************************************************************************)
KeyDown(key) ==
    /\ pc = "idle"
    /\ keys' = keydown(keys, key)
    /\ UNCHANGED <<obj, objects, mouse, lastTime, override, pending,
                   loopVars, frameLog, owed, snap, stale, callVars>>

KeyUp(key) ==
    /\ pc = "idle"
    /\ keys' = keyup(keys, key)
    /\ UNCHANGED <<obj, objects, mouse, lastTime, override, pending,
                   loopVars, frameLog, owed, snap, stale, callVars>>

MouseMove(client, origin) ==
    /\ pc = "idle"
    /\ mouse' = mousemove(mouse, client, origin)
    /\ UNCHANGED <<obj, objects, keys, lastTime, override, pending, loopVars,
                   frameLog, owed, snap, stale, callVars>>

MouseDown ==
    /\ pc = "idle"
    /\ mouse' = mousedown(mouse)
    /\ owed' = IF \E o \in Buttons : /\ InList(o) /\ obj[o].callback
                                     /\ isMouseInside(mouse, obj[o])
               THEN Min(owed + 1, MaxOwed) ELSE owed
    /\ stale' = IF \E o \in Buttons : InList(o) /\ isMouseInside(mouse, obj[o])
                THEN "no" ELSE "pressed"
    /\ UNCHANGED <<obj, objects, keys, lastTime, override, pending, loopVars,
                   frameLog, snap, callVars>>

MouseUp ==
    /\ pc = "idle"
    /\ mouse' = mouseup(mouse)
    /\ UNCHANGED <<obj, objects, keys, lastTime, override, pending, loopVars,
                   frameLog, owed, snap, stale, callVars>>

(***************************************************************************)
(* Calls of engine.add and engine.remove from the page, between frames.    *)
(***************************************************************************)
Add(o) ==
    /\ pc = "idle"
    /\ Len(objects) < MaxObjects
    /\ objects' = add(objects, o)
    /\ snap' = [stage |-> "added", o |-> o, before |-> objects]
    /\ stale' = "no"
    /\ owed' = 0
    /\ UNCHANGED <<obj, keys, mouse, lastTime, override, pending, loopVars,
                   frameLog, callVars>>

Remove(o) ==
    /\ pc = "idle"
    /\ objects' = remove(objects, o)
    /\ snap' = IF snap.stage = "added" /\ snap.o = o
               THEN [snap EXCEPT !.stage = "removed"] ELSE NoSnap
    /\ stale' = stale
    /\ owed' = 0
    /\ UNCHANGED <<obj, keys, mouse, lastTime, override, pending, loopVars,
                   frameLog, callVars>>

(***************************************************************************)
(* The frame callback: Engine.loop, Engine.update, Engine.draw.            *)
(***************************************************************************)
\* the order of the phases of loop(): update's two passes, then draw's
\* clear and draw pass, then requestAnimationFrame
\* a loop that draws before update's collision pass
loopSequence_DrawBeforeCollide ==
    <<"update", "clear", "draw", "collide", "request", "idle">>

loopSequence == <<"update", "collide", "clear", "draw", "request", "idle">>

Then(phase) ==
    LET p == CHOOSE q \in 1..(Len(loopSequence) - 1) : loopSequence[q] = phase
    IN  loopSequence[p + 1]

\* the loop indices on entry of a phase
Enter(phase) ==
    /\ pc' = phase
    /\ k' = IF phase \in {"update", "draw"} THEN 1 ELSE 0
    /\ i' = IF phase = "collide" THEN 1 ELSE 0
    /\ j' = IF phase = "collide" THEN 2 ELSE 0
    /\ a' = NoId /\ b' = NoId /\ hit' = FALSE

LoopBegin(time) ==
    /\ pc = "idle"
    /\ pending >= 1
    /\ pending' = pending - 1
    /\ dt' = time - lastTime
    /\ lastTime' = time
    /\ Enter(loopSequence[1])
    /\ snap' = NoSnap
    /\ stale' = stale
    /\ UNCHANGED <<obj, objects, keys, mouse, override, frameLog, owed,
                   callVars>>

\* a Button.update that leaves the click pending when it has no callback
ButtonUpdate_NeedsCallback(m, o) ==
    IF wasMouseClicked(m) /\ isMouseInside(m, o) /\ o.callback
    THEN [mouse |-> consumeClick(m), called |-> TRUE, consumed |-> TRUE]
    ELSE [mouse |-> m, called |-> FALSE, consumed |-> FALSE]

\* a Button.update that forgets input.consumeClick()
ButtonUpdate_NoConsume(m, o) ==
    IF wasMouseClicked(m) /\ isMouseInside(m, o)
    THEN [mouse |-> m, called |-> o.callback, consumed |-> FALSE]
    ELSE [mouse |-> m, called |-> FALSE, consumed |-> FALSE]

\* Button.update: the new input.mouse, whether the callback was called and
\* whether input.consumeClick() was called
ButtonUpdate(m, o) ==
    IF wasMouseClicked(m) /\ isMouseInside(m, o)
    THEN [mouse |-> consumeClick(m), called |-> o.callback, consumed |-> TRUE]
    ELSE [mouse |-> m, called |-> FALSE, consumed |-> FALSE]

\* obj.update(dt, this.input) of one object: GameObject.update does nothing
ObjectUpdate(m, o) ==
    IF InstanceOfButton(o) THEN ButtonUpdate(m, o)
    ELSE [mouse |-> m, called |-> FALSE, consumed |-> FALSE]

UpdateObject ==
    /\ pc = "update"
    /\ k <= Len(objects)
    /\ LET o == objects[k]
           r == ObjectUpdate(mouse, obj[o])
       IN  /\ mouse' = r.mouse
           /\ fired' = IF r.called THEN Append(fired, o) ELSE fired
           /\ consumes' = IF r.consumed THEN consumes + 1 ELSE consumes
           /\ owed' = IF r.called THEN Max(owed - 1, 0) ELSE owed
           /\ updated' = Append(updated, o)
           /\ stale' = IF ~r.consumed THEN stale
                       ELSE IF stale = "aged" THEN "consumed" ELSE "no"
    /\ k' = k + 1
    /\ UNCHANGED <<obj, objects, keys, lastTime, override, pending, pc, dt,
                   i, j, a, b, hit, pairs, n0, calls, first, c0, cleared,
                   drawn, snap, callVars>>

UpdateDone ==
    /\ pc = "update"
    /\ k > Len(objects)
    /\ Enter(Then("update"))
    /\ n0' = Len(objects)
    /\ UNCHANGED <<obj, objects, keys, mouse, lastTime, override, pending,
                   dt, updated, fired, consumes, pairs, calls, first, c0,
                   cleared, drawn, owed, snap, stale, callVars>>

\* the body of the inner loop begins: const a, const b
CollideEnter ==
    /\ pc = "collide"
    /\ i <= Len(objects) /\ j <= Len(objects)
    /\ a' = objects[i]
    /\ b' = objects[j]
    /\ pairs' = Append(pairs, <<i, j>>)
    /\ c0' = Len(calls)
    /\ pc' = "collideA"
    /\ UNCHANGED <<obj, objects, keys, mouse, lastTime, override, pending,
                   dt, k, i, j, hit, updated, fired, consumes, n0, calls,
                   first, cleared, drawn, owed, snap, stale, callVars>>

\* one "if (check && x.onCollision) x.onCollision(y)" on the world w:
\* the new world and whether the handler was called
Dispatch(w, check, self, other) ==
    IF check /\ w.obj[self].onCollision # "none"
    THEN [w |-> onCollision(w, self, other), called |-> TRUE]
    ELSE [w |-> w, called |-> FALSE]

\* the condition of the second if: Engine.update calls checkCollision again,
\* the demo's update is inside the if of its one check
SecondCheck(ov, h, oa, ob) == IF ov THEN h ELSE checkCollision(oa, ob)

CollideA ==
    /\ pc = "collideA"
    /\ LET c == checkCollision(obj[a], obj[b])
           r == Dispatch([obj |-> obj, objects |-> objects], c, a, b)
       IN  /\ first' = c
           /\ hit' = c
           /\ obj' = r.w.obj
           /\ objects' = r.w.objects
           /\ calls' = IF r.called THEN Append(calls, <<a, b>>) ELSE calls
           /\ owed' = IF r.w.objects # objects THEN 0 ELSE owed
    /\ pc' = "collideB"
    /\ UNCHANGED <<keys, mouse, lastTime, override, pending, dt, k, i, j, a,
                   b, updated, fired, consumes, pairs, n0, c0, cleared,
                   drawn, snap, stale, callVars>>

CollideB ==
    /\ pc = "collideB"
    /\ LET c == SecondCheck(override, hit, obj[a], obj[b])
           r == Dispatch([obj |-> obj, objects |-> objects], c, b, a)
       IN  /\ obj' = r.w.obj
           /\ objects' = r.w.objects
           /\ calls' = IF r.called THEN Append(calls, <<b, a>>) ELSE calls
           /\ owed' = IF r.w.objects # objects THEN 0 ELSE owed
    /\ j' = j + 1
    /\ pc' = "collide"
    /\ UNCHANGED <<keys, mouse, lastTime, override, pending, dt, k, i, a, b,
                   hit, updated, fired, consumes, pairs, n0, first, c0,
                   cleared, drawn, snap, stale, callVars>>

\* the inner loop ends: i++, j = i + 1
CollideNextRow ==
    /\ pc = "collide"
    /\ i <= Len(objects) /\ j > Len(objects)
    /\ i' = i + 1
    /\ j' = i + 2
    /\ UNCHANGED <<obj, objects, keys, mouse, lastTime, override, pending,
                   pc, dt, k, a, b, hit, frameLog, owed, snap, stale, callVars>>

\* the outer loop ends: update returns and draw begins
CollideDone ==
    /\ pc = "collide"
    /\ i > Len(objects)
    /\ Enter(Then("collide"))
    /\ UNCHANGED <<obj, objects, keys, mouse, lastTime, override, pending,
                   dt, frameLog, owed, snap, stale, callVars>>

Clear ==
    /\ pc = "clear"
    /\ cleared' = TRUE
    /\ Enter(Then("clear"))
    /\ UNCHANGED <<obj, objects, keys, mouse, lastTime, override, pending,
                   dt, updated, fired, consumes, pairs, n0, calls, first, c0,
                   drawn, owed, snap, stale, callVars>>

DrawObject ==
    /\ pc = "draw"
    /\ k <= Len(objects)
    /\ drawn' = Append(drawn, objects[k])
    /\ k' = k + 1
    /\ UNCHANGED <<obj, objects, keys, mouse, lastTime, override, pending,
                   pc, dt, i, j, a, b, hit, updated, fired, consumes, pairs,
                   n0, calls, first, c0, cleared, owed, snap, stale, callVars>>

DrawDone ==
    /\ pc = "draw"
    /\ k > Len(objects)
    /\ Enter(Then("draw"))
    /\ UNCHANGED <<obj, objects, keys, mouse, lastTime, override, pending,
                   dt, frameLog, owed, snap, stale, callVars>>

\* window.requestAnimationFrame(this.loop.bind(this)); the callback returns
RequestFrame ==
    /\ pc = "request"
    /\ pending' = requestAnimationFrame(pending)
    /\ Enter(Then("request"))
    /\ dt' = 0
    /\ updated' = <<>> /\ fired' = <<>> /\ consumes' = 0 /\ pairs' = <<>>
    /\ n0' = 0
    /\ calls' = <<>> /\ first' = FALSE /\ c0' = 0 /\ cleared' = FALSE
    /\ drawn' = <<>>
    /\ stale' = IF stale = "pressed" THEN "aged"
                ELSE IF stale = "consumed" THEN "no" ELSE stale
    /\ UNCHANGED <<obj, objects, keys, mouse, lastTime, override, owed, snap,
                   callVars>>

InputEvent ==
    \/ \E key \in Keys : KeyDown(key)
    \/ \E key \in Keys : KeyUp(key)
    \/ \E client \in ClientPts, origin \in RectOrigins : MouseMove(client, origin)
    \/ MouseDown
    \/ MouseUp

ListCall ==
    \/ \E o \in Ids : Add(o)
    \/ \E o \in Ids : Remove(o)

Frame ==
    \/ \E time \in lastTime..MaxTime : LoopBegin(time)
    \/ UpdateObject
    \/ UpdateDone
    \/ CollideEnter
    \/ CollideA
    \/ CollideB
    \/ CollideNextRow
    \/ CollideDone
    \/ Clear
    \/ DrawObject
    \/ DrawDone
    \/ RequestFrame

(***************************************************************************)
(* Direct calls of the collision predicates on shapes of bounded position  *)
(* and size.                                                               *)
(***************************************************************************)
Xs == 0..MaxCoord
Ys == 0..1
Sizes == (0 - 1)..MaxSize
Radii == 0..MaxSize

Shapes ==
    {Rectangle(x, y, w, h) : x \in Xs, y \in Ys, w \in Sizes, h \in Sizes} \cup
    {Button(x, y, w, h, TRUE) : x \in Xs, y \in Ys, w \in Sizes, h \in Sizes} \cup
    {Sprite(x, y, w, h) : x \in Xs, y \in Ys, w \in {0, MaxSize}, h \in {0, MaxSize}} \cup
    {Circle(x, y, r) : x \in Xs, y \in Ys, r \in Radii} \cup
    {Text(x, y) : x \in Xs, y \in Ys} \cup
    {GameObject(x, y) : x \in Xs, y \in Ys} \cup
    {Rectangle(10, 10, 20, 20), Circle(15, 15, 5)}

InitGeom ==
    /\ obj = SceneUI /\ override = FALSE /\ Constructed
    /\ argA \in Shapes
    /\ argB \in Shapes
    /\ result = NoResult

engineVars == <<obj, objects, keys, mouse, lastTime, override, pending,
                loopVars, frameLog, owed, snap, stale>>

CallCheckCollision ==
    /\ result.fn = "none"
    /\ result' = [fn |-> "checkCollision", val |-> checkCollision(argA, argB)]
    /\ UNCHANGED <<engineVars, argA, argB>>

CallRectRectCollision ==
    /\ result.fn = "none"
    /\ InstanceOfRectangle(argA) /\ InstanceOfRectangle(argB)
    /\ result' = [fn |-> "rectRectCollision", val |-> rectRectCollision(argA, argB)]
    /\ UNCHANGED <<engineVars, argA, argB>>

CallCircleCircleCollision ==
    /\ result.fn = "none"
    /\ InstanceOfCircle(argA) /\ InstanceOfCircle(argB)
    /\ result' = [fn |-> "circleCircleCollision",
                  val |-> circleCircleCollision(argA, argB)]
    /\ UNCHANGED <<engineVars, argA, argB>>

CallRectCircleCollision ==
    /\ result.fn = "none"
    /\ InstanceOfRectangle(argA) /\ InstanceOfCircle(argB)
    /\ result' = [fn |-> "rectCircleCollision",
                  val |-> rectCircleCollision(argA, argB)]
    /\ UNCHANGED <<engineVars, argA, argB>>

CallIsMouseInside ==
    /\ result.fn = "none"
    /\ argB = argA
    /\ \E pt \in Xs \X Ys :
          result' = [fn |-> "isMouseInside", at |-> pt,
                     val |-> isMouseInside(
                         [mouse EXCEPT !.x = pt[1], !.y = pt[2]], argA)]
    /\ UNCHANGED <<engineVars, argA, argB>>

NextGeom ==
    \/ CallCheckCollision
    \/ CallRectRectCollision
    \/ CallCircleCircleCollision
    \/ CallRectCircleCollision
    \/ CallIsMouseInside
SpecGeom == InitGeom /\ [][NextGeom]_vars

\* the page of Buttons under mouse and keyboard events
NextUI == InputEvent \/ ListCall \/ Frame
SpecUI == InitUI /\ [][NextUI]_vars

\* the page of colliding shapes, with no input events
NextPhys == ListCall \/ Frame
SpecPhys == InitPhys /\ [][NextPhys]_vars

\* the browser runs a registered frame callback, and a running callback runs
\* to its end
SpecPhysFair == SpecPhys /\ WF_vars(Frame)

TypeOK ==
    /\ pc \in {"idle", "update", "collide", "collideA", "collideB", "clear",
               "draw", "request"}
    /\ Len(objects) <= MaxObjects
    /\ pending \in 0..1

(***************************************************************************)
(* Properties.                                                             *)
(***************************************************************************)
\* the Buttons of the object list whose bounds hold the mouse position
ButtonsUnderMouse ==
    {p \in 1..Len(objects) :
        InstanceOfButton(obj[objects[p]]) /\ isMouseInside(mouse, obj[objects[p]])}

\* C1: the click flag is true after every mousedown event, false after every
\* call of consumeClick(), and is left as it was by every other step: key and
\* mouse events, add, remove, queries and every other step of a frame.
C1_ClickFlag ==
    [][wasMouseClicked(mouse') =
          IF consumes' > consumes THEN FALSE
          ELSE IF MouseDown THEN TRUE
          ELSE wasMouseClicked(mouse)]_vars

\* C1: a frame has updated an object and passed, the mouse button is released,
\* and the click of an earlier press is still reported.
C1_Witness ==
    /\ pc = "request"
    /\ Len(updated) > 0
    /\ ~isMouseDown(mouse)
    /\ wasMouseClicked(mouse)

\* C2 as stated: every press made while the mouse is inside the bounds of a
\* Button of the list that has a callback is answered by a callback, one per press, by the end of
\* the frame: no such press is left unanswered when the frame requests the
\* next one.
C2_OncePerPress == pc = "request" => owed = 0

\* C2 amended: a Button callback is invoked only by the update of a Button
\* that finds the click flag set and the mouse position, as it is at that
\* update, inside its bounds; that update invokes the callback once and
\* leaves wasMouseClicked() false; and every update of a Button with a
\* callback that finds the flag set and the mouse inside invokes it.
C2_OncePerPendingClick ==
    [][/\ Len(fired') > Len(fired) =>
            /\ pc = "update" /\ k <= Len(objects)
            /\ fired' = Append(fired, objects[k])
            /\ InstanceOfButton(obj[objects[k]])
            /\ wasMouseClicked(mouse)
            /\ isMouseInside(mouse, obj[objects[k]])
            /\ ~wasMouseClicked(mouse')
       /\ (/\ updated' # updated
           /\ k \in ButtonsUnderMouse
           /\ obj[objects[k]].callback
           /\ wasMouseClicked(mouse)) => fired' = Append(fired, objects[k])]_vars

\* C2: the update of a Button has just invoked its callback and the click is
\* no longer reported.
C2_Witness ==
    /\ pc = "update"
    /\ Len(fired) = 1
    /\ updated[Len(updated)] = fired[1]
    /\ ~wasMouseClicked(mouse)

\* C3: in one frame at most one Button callback is invoked, and the Button
\* that invoked it is the earliest entry of the list that is a Button with the
\* mouse inside its bounds: no Button before it holds the mouse position.
\* Once the update pass is over with a Button under the mouse, the click is
\* consumed.
C3_FirstButtonWins ==
    /\ Len(fired) <= 1
    /\ Len(fired) = 1 =>
          /\ ButtonsUnderMouse # {}
          /\ \A p \in ButtonsUnderMouse : p >= indexOf(objects, fired[1])
    /\ (pc \notin {"idle", "update"} /\ ButtonsUnderMouse # {}) =>
          ~wasMouseClicked(mouse)

\* C3: the update pass is over, two different Buttons with a callback hold the
\* mouse position, and one callback was invoked.
C3_Witness ==
    /\ pc = "collide"
    /\ Len(fired) = 1
    /\ \E p, q \in ButtonsUnderMouse :
          /\ objects[p] # objects[q]
          /\ obj[objects[p]].callback /\ obj[objects[q]].callback

\* the index pairs p < q of a list of length n
PairsOf(n) == {pq \in (1..n) \X (1..n) : pq[1] < pq[2]}

\* no object is in the list twice
Distinct(list) ==
    \A p, q \in 1..Len(list) : list[p] = list[q] => p = q

\* C4 as stated, for a list of distinct objects: when the collision pass of a
\* frame ends, every pair of positions p < q of the list the pass began with
\* was taken exactly once, and nothing else was taken: no pair in both orders,
\* no position with itself.
C4_EveryPairOnce ==
    (pc = "clear" /\ Distinct(updated)) =>
        /\ \A pq \in PairsOf(n0) :
              Cardinality({r \in 1..Len(pairs) : pairs[r] = pq}) = 1
        /\ \A r \in 1..Len(pairs) : pairs[r][1] < pairs[r][2]

\* the onCollision calls owed to the pair (a, b) once checkCollision(a, b)
\* has returned true
CallsOwed ==
    (IF obj[a].onCollision # "none" THEN << <<a, b>> >> ELSE << >>) \o
    (IF obj[b].onCollision # "none" THEN << <<b, a>> >> ELSE << >>)

\* C5 as stated: when the body of the collision loop is over for a pair
\* (a, b) for which checkCollision(a, b) returned true, a.onCollision(b) and
\* then b.onCollision(a) were called, each when the participant defines it.
C5_BothHandlersCalled ==
    (pc = "collide" /\ a # NoId /\ first) =>
        SubSeq(calls, c0 + 1, Len(calls)) = CallsOwed

\* the same statement for the update function the demo installs
C5_DemoUpdateCallsBoth == override => C5_BothHandlersCalled

\* every entry of the object list was updated in this frame
AllUpdated ==
    /\ Len(updated) >= Len(objects)
    /\ \A p \in 1..Len(objects) : \E q \in 1..Len(updated) : updated[q] = objects[p]

\* C6: a frame sets lastTime and dt before anything else; update calls come in
\* list order and before every collision check, handler call, clear and draw;
\* collision checks and handler calls come after the update of every object
\* and before the clear; the clear comes before every draw; draws come in list
\* order; the next frame is requested after the draw of every object.
C6_PhaseOrder ==
    [][/\ (pc = "idle" /\ pc' # "idle") =>
            /\ dt' = lastTime' - lastTime
            /\ updated' = << >> /\ pairs' = << >> /\ calls' = << >>
            /\ ~cleared' /\ drawn' = << >>
       /\ Len(updated') > Len(updated) =>
            /\ updated' = SubSeq(objects, 1, Len(updated'))
            /\ pairs = << >> /\ calls = << >> /\ ~cleared /\ drawn = << >>
       /\ (Len(pairs') > Len(pairs) \/ Len(calls') > Len(calls)) =>
            /\ AllUpdated
            /\ ~cleared /\ drawn = << >>
       /\ (cleared' /\ ~cleared) => (AllUpdated /\ drawn = << >>)
       /\ Len(drawn') > Len(drawn) =>
            /\ cleared
            /\ drawn' = SubSeq(objects, 1, Len(drawn'))
       /\ pending' > pending => (cleared /\ drawn = objects /\ AllUpdated)]_vars

\* C6: a frame with a positive dt has called a collision handler, has drawn
\* two objects and is about to request the next frame.
C6_Witness ==
    /\ pc = "request"
    /\ dt > 0
    /\ calls # << >>
    /\ Len(drawn) >= 2

\* C7 as stated: remove(o) directly after add(o) leaves the list that add(o)
\* found.
C7_AddRemoveRestores == snap.stage = "removed" => objects = snap.before

\* the list without its entry at position p
Without(list, p) ==
    [q \in 1..(Len(list) - 1) |-> IF q < p THEN list[q] ELSE list[q + 1]]

\* C8: remove(o) of an object that is not in the list leaves the list and the
\* rest of the engine as they were; remove(o) of an object in the list takes
\* out one entry equal to o and keeps the others in their order.
C8_RemoveEffect ==
    [][\A o \in Ids : Remove(o) =>
          /\ UNCHANGED <<obj, keys, mouse, lastTime, override, pending, loopVars>>
          /\ IF InList(o)
             THEN \E p \in 1..Len(objects) :
                     objects[p] = o /\ objects' = Without(objects, p)
             ELSE objects' = objects]_vars

\* C8: remove(o) has just taken one of two equal entries out of a list that
\* holds another object as well.
C8_Witness ==
    /\ snap.stage = "removed"
    /\ Len(objects) = 2
    /\ InList(snap.o)
    /\ \E p \in 1..2 : objects[p] # snap.o

Kinds(s, t) == {s.kind, t.kind}

\* C9 as stated: checkCollision returns false for every pair with a Text, a
\* Sprite or a Button in it.
C9_UnsupportedFalse ==
    (result.fn = "checkCollision"
        /\ Kinds(argA, argB) \cap {"Text", "Sprite", "Button"} # {}) => ~result.val

\* a Button seen as the Rectangle of its bounds
AsRectangle(s) ==
    IF s.kind = "Button" THEN [s EXCEPT !.kind = "Rectangle", !.callback = FALSE]
    ELSE s

\* C9 amended: checkCollision returns false for every pair with a Text or a
\* Sprite in it; only pairs of Rectangles (Buttons included) and Circles can
\* return true; and a Button collides as the Rectangle of its bounds does.
C9_TextSpriteFalse ==
    result.fn = "checkCollision" =>
        /\ Kinds(argA, argB) \cap {"Text", "Sprite"} # {} => ~result.val
        /\ result.val => Kinds(argA, argB) \subseteq {"Rectangle", "Button", "Circle"}
        /\ result.val = checkCollision(AsRectangle(argA), AsRectangle(argB))

\* C9: checkCollision has returned false for a Sprite and a Rectangle whose
\* bounds overlap.
C9_Witness ==
    /\ result.fn = "checkCollision"
    /\ argA.kind = "Sprite" /\ argB.kind = "Rectangle"
    /\ rectRectCollision(argA, argB)
    /\ ~result.val

NonNegative(s) == s.width >= 0 /\ s.height >= 0

\* the two rectangles touch along an edge or at a corner
Touching(s, t) ==
    \/ s.x + s.width = t.x \/ t.x + t.width = s.x
    \/ s.y + s.height = t.y \/ t.y + t.height = s.y

\* one rectangle ends where or before the other begins, on some axis
Apart(s, t) ==
    \/ s.x + s.width <= t.x \/ t.x + t.width <= s.x
    \/ s.y + s.height <= t.y \/ t.y + t.height <= s.y

\* C10: for rectangles of non-negative width and height rectRectCollision is
\* true exactly when on neither axis one rectangle ends where or before the
\* other begins; it is false for rectangles that touch.
C10_RectRectStrict ==
    (result.fn = "rectRectCollision" /\ NonNegative(argA) /\ NonNegative(argB)) =>
        /\ result.val = ~Apart(argA, argB)
        /\ Touching(argA, argB) => ~result.val

\* C10: rectRectCollision has returned false for two rectangles of positive
\* size that share an edge and whose y ranges overlap.
C10_Witness ==
    /\ result.fn = "rectRectCollision"
    /\ argA.width > 0 /\ argA.height > 0 /\ argB.width > 0 /\ argB.height > 0
    /\ argA.x + argA.width = argB.x
    /\ argA.y = argB.y
    /\ ~result.val

\* the squared distance of the positions of two objects
Dist2(s, t) == (s.x - t.x) * (s.x - t.x) + (s.y - t.y) * (s.y - t.y)

\* C11: circleCircleCollision is true exactly when the distance of the centres
\* is below the sum of the radii, compared through the squares: the sum is
\* positive and the squared distance is below the squared sum.  It is false
\* when the distance equals the sum.
C11_CircleCircleStrict ==
    result.fn = "circleCircleCollision" =>
        LET sum == argA.radius + argB.radius
        IN  /\ result.val = (sum > 0 /\ Dist2(argA, argB) < sum * sum)
            /\ Dist2(argA, argB) = sum * sum => ~result.val

\* C11: circleCircleCollision has returned false for two circles of positive
\* radius at different centres whose distance equals the sum of the radii.
C11_Witness ==
    /\ result.fn = "circleCircleCollision"
    /\ argA.radius > 0 /\ argB.radius > 0
    /\ Dist2(argA, argB) = (argA.radius + argB.radius) * (argA.radius + argB.radius)
    /\ ~result.val

\* the squared distances from the position of t to the points of the
\* rectangle s of non-negative size (its nearest point to an integer position
\* has integer coordinates), and the least of them
PointDist2(s, t) ==
    {(t.x - px) * (t.x - px) + (t.y - py) * (t.y - py) :
        px \in s.x..(s.x + s.width), py \in s.y..(s.y + s.height)}

NearestDist2(s, t) ==
    CHOOSE d \in PointDist2(s, t) : \A e \in PointDist2(s, t) : d <= e

\* C12: for a rectangle of non-negative width and height rectCircleCollision
\* is true exactly when the squared distance from the circle's centre to the
\* nearest point of the rectangle is below the squared radius; it is false
\* when that distance equals the radius.
C12_RectCircleStrict ==
    (result.fn = "rectCircleCollision" /\ NonNegative(argA)) =>
        LET d == NearestDist2(argA, argB)
        IN  /\ result.val = (d < argB.radius * argB.radius)
            /\ d = argB.radius * argB.radius => ~result.val

\* C12: rectCircleCollision has returned false for a circle of positive radius
\* whose centre is outside the rectangle, at a distance equal to the radius
\* from the nearest point, on an edge of a rectangle of positive size.
C12_Witness ==
    /\ result.fn = "rectCircleCollision"
    /\ argA.width > 0 /\ argA.height > 0
    /\ argB.radius > 0
    /\ argB.x > argA.x + argA.width
    /\ argB.y >= argA.y /\ argB.y <= argA.y + argA.height
    /\ NearestDist2(argA, argB) = argB.radius * argB.radius
    /\ ~result.val

\* an object that has neither a width nor a height
NoSize(s) == "width" \notin s.fields /\ "height" \notin s.fields

\* C13: isMouseInside(obj) is false for every object that has no width and no
\* height (Circle, Text, plain GameObject), for every mouse position, the
\* position equal to (obj.x, obj.y) included.
C13_NoSizeNeverInside ==
    (result.fn = "isMouseInside" /\ NoSize(argA)) => ~result.val

\* the frame callbacks that are registered or running
Callbacks == pending + (IF pc = "idle" THEN 0 ELSE 1)

\* C14: construction registers one frame callback and every loop registers
\* one successor as its last step, so at every moment exactly one callback is
\* pending or running, a frame step is always possible (no terminal state),
\* and under fair scheduling frames end and begin infinitely often.
C14_FrameLoopForever ==
    /\ [](Callbacks = 1)
    /\ [](ENABLED Frame)
    /\ [][pc = "request" => (pc' = "idle" /\ pending' = pending + 1)]_vars
    /\ []<>(pc = "request")
    /\ []<>(pc = "idle")

\* C14: a frame has run to its end and its successor is the one pending
\* callback.
C14_Witness ==
    /\ pc = "idle"
    /\ lastTime > 0
    /\ pending = 1

\* the input state other than the click flag
Held == <<keys, mouse.x, mouse.y, mouse.down>>

\* C15: input events are applied only between frames: a step that changes
\* the held keys, the mouse position or the mouse-down flag, or sets the click
\* flag, starts and ends outside a frame; a step taken inside a frame leaves
\* the keys, the position and the down flag as they are and changes the click
\* flag only from true to false, through consumeClick().
C15_InputFrozenInFrame ==
    [][/\ (Held' # Held \/ (mouse'.clicked /\ ~mouse.clicked)) =>
              (pc = "idle" /\ pc' = "idle")
       /\ pc # "idle" =>
              /\ Held' = Held
              /\ mouse'.clicked # mouse.clicked =>
                     (mouse.clicked /\ ~mouse'.clicked /\ consumes' = consumes + 1)
      ]_vars

\* C15: a frame that has consumed a click is drawing while a key is held and
\* the mouse button is still down.
C15_Witness ==
    /\ pc = "draw"
    /\ consumes > 0
    /\ ~mouse.clicked
    /\ keys # {}
    /\ mouse.down
    /\ mouse.x # 0

\* s is a Rectangle of non-negative size and t a Circle whose centre lies
\* within the bounds of s
CentreInside(s, t) ==
    /\ InstanceOfRectangle(s) /\ NonNegative(s)
    /\ InstanceOfCircle(t)
    /\ t.x >= s.x /\ t.x <= s.x + s.width
    /\ t.y >= s.y /\ t.y <= s.y + s.height

\* C16 as stated: for every Rectangle of non-negative size and every Circle
\* whose centre lies inside the rectangle's bounds, checkCollision is true in
\* either argument order.
C16_CentreInsideCollides ==
    (result.fn = "checkCollision" /\
     (CentreInside(argA, argB) \/ CentreInside(argB, argA))) => result.val

\* C16: for every Rectangle of non-negative size and every Circle of non-zero
\* radius whose centre lies inside the rectangle's bounds, checkCollision is
\* true in either argument order.
C16_CentreInsideRadiusCollides ==
    (/\ result.fn = "checkCollision"
     /\ \/ CentreInside(argA, argB) /\ argB.radius # 0
        \/ CentreInside(argB, argA) /\ argA.radius # 0) => result.val

\* C16: checkCollision has reported true for Circle(15,15,5) against
\* Rectangle(10,10,20,20), the circle given first.
C16_Witness ==
    /\ result.fn = "checkCollision"
    /\ argA = Circle(15, 15, 5)
    /\ argB = Rectangle(10, 10, 20, 20)
    /\ CentreInside(argB, argA)
    /\ result.val

\* the first n entries of list
Prefix(list, n) == [q \in 1..n |-> list[q]]

\* C17: the object list changes only by an add, which puts one entry at the
\* end, or by a remove, which takes one entry out and keeps the others in
\* their order; the page calls them between frames, and inside a frame the
\* list changes only in a step that calls a collision handler (which may call
\* remove), never in the update pass, clear or the draw pass; the objects
\* updated and drawn so far in a frame are the list's entries in list order.
C17_ListOrder ==
    /\ [][objects' # objects =>
            \/ /\ pc = "idle" /\ pc' = "idle"
               /\ \E o \in Ids : objects' = objects \o <<o>>
            \/ /\ pc = "idle" \/ Len(calls') > Len(calls)
               /\ \E p \in 1..Len(objects) : objects' = Without(objects, p)
         ]_vars
    /\ [](pc = "update" => (k >= 1 /\ updated = Prefix(objects, k - 1)))
    /\ []((pc = "collide" /\ calls = <<>>) => updated = objects)
    /\ [](pc = "draw" => (k >= 1 /\ drawn = Prefix(objects, k - 1)))
    /\ [](pc = "request" => drawn = objects)

\* C17: a frame has updated and drawn, in list order, a list of three entries
\* that were added in another order than that of their identifiers.
C17_Witness ==
    /\ pc = "request"
    /\ Len(objects) = 3
    /\ objects[1] > objects[2]
    /\ updated = objects
    /\ drawn = objects

\* C18: collision is symmetric in its arguments: what checkCollision reports
\* for a pair of shapes (Rectangle, Button, Circle, Sprite, Text, GameObject)
\* it reports for the swapped pair, and rectRectCollision does so for all
\* rectangles, of zero and negative width and height included.
C18_Symmetric ==
    /\ result.fn = "checkCollision" => result.val = checkCollision(argB, argA)
    /\ result.fn = "rectRectCollision" => result.val = rectRectCollision(argB, argA)

\* C18: rectRectCollision has answered for a rectangle of negative width
\* against a different rectangle of zero height.
C18_Witness ==
    /\ result.fn = "rectRectCollision"
    /\ argA.width < 0 /\ argB.height = 0
    /\ argA.x # argB.x
    /\ ~result.val

\* C19: a press made while the mouse is outside every listed Button stays
\* pending. The click flag is cleared in no other step than the update of a
\* listed Button whose bounds hold the mouse, so neither mouseup nor a frame
\* without such a Button clears it; the update of such a Button while the flag
\* is set clears it without any new press and calls the Button's callback if
\* it has one (a Button without callback consumes the click as well); so after
\* the update pass of a frame the flag is set only if no listed Button holds
\* the mouse, and a press made outside every Button is pending until such an
\* update.
C19_StaleClick ==
    /\ [][(mouse.clicked /\ ~mouse'.clicked) =>
              (pc = "update" /\ k \in ButtonsUnderMouse)]_vars
    /\ [][(pc = "update" /\ k' = k + 1 /\ mouse.clicked /\ k \in ButtonsUnderMouse) =>
              /\ ~mouse'.clicked
              /\ mouse'.down = mouse.down
              /\ consumes' = consumes + 1
              /\ fired' = IF obj[objects[k]].callback
                          THEN Append(fired, objects[k]) ELSE fired]_vars
    /\ []((pc \notin {"idle", "update"} /\ mouse.clicked) => ButtonsUnderMouse = {})
    /\ [](stale \in {"pressed", "aged"} => mouse.clicked)

\* C19: a press made outside every listed Button was still pending at the end
\* of a frame, and a later frame, the mouse button released and the mouse
\* moved into a Button, has called that Button's callback and cleared the flag.
C19_Witness ==
    /\ stale = "consumed"
    /\ Len(fired) = 1
    /\ ~mouse.down
    /\ ~mouse.clicked

\* C20: after any sequence of add and remove calls no object is reported as
\* colliding with itself: no frame calls o.onCollision(o).
C20_NoSelfCollision ==
    \A r \in 1..Len(calls) : calls[r][1] # calls[r][2]

====
